---- MODULE Spec2Model ----
(***************************************************************************)
(* Model of utf8-command's FromUtf8ErrorContext (src/src/context.rs): the  *)
(* window of bytes shown around a UTF-8 decode error, and its rendering.   *)
(* Byte indices are 0-based as in the source; At(b, i) reads byte i.       *)
(* A String is modelled as the sequence of its UTF-8 bytes.                *)
(***************************************************************************)
EXTENDS Integers, Sequences, FiniteSets, TLC

\* ------------------------------------------------------------------ bounds
MaxLen == 5
MaxBudget == 4

\* Bytes the buffers are drawn from: ASCII 'b', the continuation byte 0x98,
\* and the lead bytes of 2-, 3- and 4-byte sequences (C3 98 = U+00D8,
\* E2 98 98 = U+2618, F0 98 98 98 = U+18618). A lead byte that is not
\* followed by its continuation bytes is an invalid byte that is a boundary.
Alphabet == {98, 152, 195, 226, 240}

None == -1

\* ------------------------------------------------------------ std helpers
SetMax(S) == CHOOSE x \in S : \A y \in S : y <= x

SetMin(S) == CHOOSE x \in S : \A y \in S : x <= y

At(b, i) == IF i >= 0 /\ i < Len(b) THEN b[i + 1] ELSE 0

Slice(b, lo, hi) == SubSeq(b, lo + 1, hi)

saturating_sub(a, n) == IF a >= n THEN a - n ELSE 0

checked_sub(a, n) == IF a >= n THEN a - n ELSE None

\* core::str::validations: the range the second byte of a sequence may take.
SecondOk(first, second) ==
    CASE first = 224 -> second >= 160 /\ second <= 191
      [] first = 237 -> second >= 128 /\ second <= 159
      [] first = 240 -> second >= 144 /\ second <= 191
      [] first = 244 -> second >= 128 /\ second <= 143
      [] OTHER -> second >= 128 /\ second <= 191

IsCont(x) == x >= 128 /\ x <= 191

utf8_char_width(first) ==
    IF first < 128 THEN 1
    ELSE IF first >= 194 /\ first <= 223 THEN 2
    ELSE IF first >= 224 /\ first <= 239 THEN 3
    ELSE IF first >= 240 /\ first <= 244 THEN 4
    ELSE 0

\* One step of the UTF-8 decoder at byte i (i < Len(b)): whether a whole valid
\* character starts there, and how many bytes the character (or the maximal
\* invalid chunk, as Utf8Chunks reports it) takes.
DecodeAt(b, i) ==
    LET w == utf8_char_width(At(b, i))
        n == Len(b)
    IN  IF w = 0 THEN [valid |-> FALSE, len |-> 1]
        ELSE IF w = 1 THEN [valid |-> TRUE, len |-> 1]
        ELSE IF i + 1 >= n THEN [valid |-> FALSE, len |-> 1]
        ELSE IF ~SecondOk(At(b, i), At(b, i + 1)) THEN [valid |-> FALSE, len |-> 1]
        ELSE IF w = 2 THEN [valid |-> TRUE, len |-> 2]
        ELSE IF i + 2 >= n THEN [valid |-> FALSE, len |-> 2]
        ELSE IF ~IsCont(At(b, i + 2)) THEN [valid |-> FALSE, len |-> 2]
        ELSE IF w = 3 THEN [valid |-> TRUE, len |-> 3]
        ELSE IF i + 3 >= n THEN [valid |-> FALSE, len |-> 3]
        ELSE IF ~IsCont(At(b, i + 3)) THEN [valid |-> FALSE, len |-> 3]
        ELSE [valid |-> TRUE, len |-> 4]

RECURSIVE ValidFrom(_, _)
ValidFrom(b, i) ==
    IF i >= Len(b) THEN Len(b)
    ELSE LET d == DecodeAt(b, i)
         IN  IF d.valid THEN ValidFrom(b, i + d.len) ELSE i

\* String::from_utf8(bytes).unwrap_err().utf8_error().valid_up_to(); equals
\* Len(b) exactly when the bytes are valid UTF-8 (and from_utf8 returns Ok).
valid_up_to(b) == ValidFrom(b, 0)

REPLACEMENT == <<239, 191, 189>>

RECURSIVE LossyFrom(_, _)
LossyFrom(b, i) ==
    IF i >= Len(b) THEN <<>>
    ELSE LET d == DecodeAt(b, i)
         IN  (IF d.valid THEN Slice(b, i, i + d.len) ELSE REPLACEMENT)
                \o LossyFrom(b, i + d.len)

\* String::from_utf8_lossy: every maximal invalid chunk becomes U+FFFD.
from_utf8_lossy(b) == LossyFrom(b, 0)

EscapeByte(x) ==
    CASE x = 34 -> <<92, 34>>
      [] x = 92 -> <<92, 92>>
      [] x = 10 -> <<92, 110>>
      [] x = 13 -> <<92, 114>>
      [] x = 9  -> <<92, 116>>
      [] x = 0  -> <<92, 48>>
      [] OTHER  -> <<x>>

RECURSIVE EscapeFrom(_, _)
EscapeFrom(s, k) ==
    IF k > Len(s) THEN <<>> ELSE EscapeByte(s[k]) \o EscapeFrom(s, k + 1)

\* "{:?}" of a str: double quotes around the text, with quote, backslash and
\* the ASCII control escapes; the characters of Alphabet and U+FFFD are
\* printable and pass through unchanged.
DebugFmt(s) == <<34>> \o EscapeFrom(s, 1) \o <<34>>

RECURSIVE Digits(_)
Digits(n) == IF n < 10 THEN <<48 + n>> ELSE Digits(n \div 10) \o <<48 + (n % 10)>>

\* "{}" of a usize.
DisplayUsize(n) == Digits(n)

\* --------------------------------------------------------------- context.rs
AsI8(byte) == IF byte >= 128 THEN byte - 256 ELSE byte

is_codepoint_boundary(byte) == AsI8(byte) >= -64

\* Mutant: the position found in the slice is returned without adding
\* lower_bound back.
adjust_index_down_relative(b, index) ==
    LET lower_bound == saturating_sub(index, 3)
        P == {p \in 0..(index - lower_bound) :
                 is_codepoint_boundary(At(b, lower_bound + p))}
    IN  IF P = {} THEN None ELSE SetMax(P)

adjust_index_down(b, index) ==
    LET lower_bound == saturating_sub(index, 3)
        P == {p \in 0..(index - lower_bound) :
                 is_codepoint_boundary(At(b, lower_bound + p))}
    IN  IF P = {} THEN None ELSE SetMax(P) + lower_bound

\* Mutant: the upward scan stops one byte short (index + 3).
adjust_index_up_three(b, index) ==
    LET upper_bound == IF index + 3 <= Len(b) THEN index + 3 ELSE Len(b)
        P == {p \in 0..(upper_bound - index - 1) :
                 is_codepoint_boundary(At(b, index + p))}
    IN  IF P = {} THEN None ELSE SetMin(P) + index

\* Mutant: the upward scan looks one byte too far (index + 5).
adjust_index_up_five(b, index) ==
    LET upper_bound == IF index + 5 <= Len(b) THEN index + 5 ELSE Len(b)
        P == {p \in 0..(upper_bound - index - 1) :
                 is_codepoint_boundary(At(b, index + p))}
    IN  IF P = {} THEN None ELSE SetMin(P) + index

adjust_index_up(b, index) ==
    LET upper_bound == IF index + 4 <= Len(b) THEN index + 4 ELSE Len(b)
        P == {p \in 0..(upper_bound - index - 1) :
                 is_codepoint_boundary(At(b, index + p))}
    IN  IF P = {} THEN None ELSE SetMin(P) + index

\* Mutant: the short-buffer test is < instead of <=.
window_unadjusted_strict(b, error_index, max_size) ==
    IF Len(b) < max_size THEN [start |-> 0, end |-> Len(b)]
    ELSE LET half_window == max_size \div 2
             upper_bound == error_index + half_window
             lower_bound == checked_sub(error_index, half_window)
         IN  IF upper_bound >= Len(b)
                THEN [start |-> Len(b) - max_size, end |-> Len(b)]
             ELSE IF lower_bound = None
                THEN [start |-> 0, end |-> max_size]
             ELSE [start |-> error_index - half_window,
                   end |-> error_index + half_window]

\* Mutant: the centred window's upper bound takes the rest of the budget.
window_unadjusted_wide(b, error_index, max_size) ==
    IF Len(b) <= max_size THEN [start |-> 0, end |-> Len(b)]
    ELSE LET half_window == max_size \div 2
             upper_bound == error_index + half_window
             lower_bound == checked_sub(error_index, half_window)
         IN  IF upper_bound >= Len(b)
                THEN [start |-> Len(b) - max_size, end |-> Len(b)]
             ELSE IF lower_bound = None
                THEN [start |-> 0, end |-> max_size]
             ELSE [start |-> error_index - half_window,
                   end |-> error_index + (max_size - half_window)]

\* Mutant: the end-anchoring test is > instead of >=.
window_unadjusted_gt(b, error_index, max_size) ==
    IF Len(b) <= max_size THEN [start |-> 0, end |-> Len(b)]
    ELSE LET half_window == max_size \div 2
             upper_bound == error_index + half_window
             lower_bound == checked_sub(error_index, half_window)
         IN  IF upper_bound > Len(b)
                THEN [start |-> Len(b) - max_size, end |-> Len(b)]
             ELSE IF lower_bound = None
                THEN [start |-> 0, end |-> max_size]
             ELSE [start |-> error_index - half_window,
                   end |-> error_index + half_window]

\* Mutant: the start-anchored window is two half windows long.
window_unadjusted_halves(b, error_index, max_size) ==
    IF Len(b) <= max_size THEN [start |-> 0, end |-> Len(b)]
    ELSE LET half_window == max_size \div 2
             upper_bound == error_index + half_window
             lower_bound == checked_sub(error_index, half_window)
         IN  IF upper_bound >= Len(b)
                THEN [start |-> Len(b) - max_size, end |-> Len(b)]
             ELSE IF lower_bound = None
                THEN [start |-> 0, end |-> half_window + half_window]
             ELSE [start |-> error_index - half_window,
                   end |-> error_index + half_window]

window_unadjusted(b, error_index, max_size) ==
    IF Len(b) <= max_size THEN [start |-> 0, end |-> Len(b)]
    ELSE LET half_window == max_size \div 2
             upper_bound == error_index + half_window
             lower_bound == checked_sub(error_index, half_window)
         IN  IF upper_bound >= Len(b)
                THEN [start |-> Len(b) - max_size, end |-> Len(b)]
             ELSE IF lower_bound = None
                THEN [start |-> 0, end |-> max_size]
             ELSE [start |-> error_index - half_window,
                   end |-> error_index + half_window]

Or3(a, c, d) == IF a # None THEN a ELSE IF c # None THEN c ELSE d

window(b, error_index, max_size) ==
    LET r == window_unadjusted(b, error_index, max_size)
        s == IF r.start # 0 /\ ~is_codepoint_boundary(At(b, r.start))
                THEN Or3(adjust_index_up(b, r.start),
                         adjust_index_down(b, r.start), r.start)
                ELSE r.start
        e == IF r.end # Len(b) /\ ~is_codepoint_boundary(At(b, r.end))
                THEN Or3(adjust_index_down(b, r.end),
                         adjust_index_up(b, r.end), r.end)
                ELSE r.end
    IN  [start |-> s, end |-> e]

\* The byte indices window() and its helpers index or slice over.
window_reads(b, error_index, max_size) ==
    LET r == window_unadjusted(b, error_index, max_size)
        n == Len(b)
        up(i) == i..((IF i + 4 <= n THEN i + 4 ELSE n) - 1)
        down(i) == saturating_sub(i, 3)..i
        rs == IF r.start = 0 THEN {}
              ELSE {r.start} \cup
                   (IF is_codepoint_boundary(At(b, r.start)) THEN {}
                    ELSE up(r.start) \cup
                         (IF adjust_index_up(b, r.start) = None
                             THEN down(r.start) ELSE {}))
        re == IF r.end = n THEN {}
              ELSE {r.end} \cup
                   (IF is_codepoint_boundary(At(b, r.end)) THEN {}
                    ELSE down(r.end) \cup
                         (IF adjust_index_down(b, r.end) = None
                             THEN up(r.end) ELSE {}))
    IN  rs \cup re

ByteCount(n) ==
    IF n = 1 THEN <<91, 49, 32, 98, 121, 116, 101, 93>>
    ELSE <<91>> \o DisplayUsize(n) \o <<32, 98, 121, 116, 101, 115, 93>>

\* Display for FromUtf8ErrorContext. out is what has been written to the
\* formatter; slicing bytes[range] panics when the range is inverted or runs
\* past the buffer, after the leading marker has been written.
fmt(b, error_index, max_size) ==
    IF Len(b) <= max_size
    THEN [status |-> "ok", out |-> DebugFmt(from_utf8_lossy(b)),
          range |-> [start |-> 0, end |-> 0], before |-> 0, after |-> 0]
    ELSE LET range == window(b, error_index, max_size)
             before == range.start
             after == Len(b) - range.end
             lead == IF before # 0 THEN ByteCount(before) \o <<32>> ELSE <<>>
             trail == IF after # 0 THEN <<32>> \o ByteCount(after) ELSE <<>>
         IN  IF range.start > range.end \/ range.end > Len(b)
             THEN [status |-> "panic", out |-> lead, range |-> range,
                   before |-> before, after |-> after]
             ELSE [status |-> "ok",
                   out |-> lead
                           \o DebugFmt(from_utf8_lossy(
                                  Slice(b, range.start, range.end)))
                           \o trail,
                   range |-> range, before |-> before, after |-> after]

\* -------------------------------------------------------------------- state
\* bytes        self.inner.as_bytes(), the buffer from_utf8 rejected
\* error_index  self.inner.utf8_error().valid_up_to()
\* max_size     the context's max_size field
\* call         the method of the context that has been called, if any
\* range        the Range the call returned (window, window_unadjusted) or
\*              held in its local `range` (fmt)
\* reads        the byte indices window() and its helpers accessed
\* before/after fmt's locals of the same names
\* out          the text written to the Formatter so far
\* status       how the call ended: "ok", or "panic"
VARIABLES bytes, error_index, max_size, call, range, reads, before, after,
          out, status

vars == <<bytes, error_index, max_size, call, range, reads, before, after,
          out, status>>

Buffers == UNION {[1..n -> Alphabet] : n \in 1..MaxLen}

\* A FromUtf8Error exists only for bytes from_utf8 rejected; the context is
\* constructed over it with a positive max_size.
Init ==
    /\ bytes \in {b \in Buffers : valid_up_to(b) < Len(b)}
    /\ error_index = valid_up_to(bytes)
    /\ max_size \in 1..MaxBudget
    /\ call = "none"
    /\ range = [start |-> 0, end |-> 0]
    /\ reads = {}
    /\ before = 0
    /\ after = 0
    /\ out = <<>>
    /\ status = "none"

WindowUnadjusted ==
    /\ call = "none"
    /\ call' = "window_unadjusted"
    /\ range' = window_unadjusted(bytes, error_index, max_size)
    /\ status' = "ok"
    /\ UNCHANGED <<bytes, error_index, max_size, reads, before, after, out>>

Window ==
    /\ call = "none"
    /\ call' = "window"
    /\ reads' = window_reads(bytes, error_index, max_size)
    /\ range' = window(bytes, error_index, max_size)
    /\ status' = IF reads' \subseteq 0..(Len(bytes) - 1) THEN "ok" ELSE "panic"
    /\ UNCHANGED <<bytes, error_index, max_size, before, after, out>>

Fmt ==
    /\ call = "none"
    /\ call' = "fmt"
    /\ LET r == fmt(bytes, error_index, max_size)
       IN  /\ range' = r.range
           /\ before' = r.before
           /\ after' = r.after
           /\ out' = r.out
           /\ status' = r.status
    /\ reads' = IF Len(bytes) <= max_size THEN {}
                ELSE window_reads(bytes, error_index, max_size)
    /\ UNCHANGED <<bytes, error_index, max_size>>

Next ==
    \/ WindowUnadjusted
    \/ Window
    \/ Fmt

Spec == Init /\ [][Next]_vars

\* ------------------------------------------------------------------ claims
Truncated == Len(bytes) > max_size

Half == max_size \div 2

\* C1: for every buffer, valid error offset and budget >= 1, formatting never
\* fails: every byte index read by window() and its helpers is in bounds, the
\* range it returns satisfies 0 <= start <= end <= length(buffer), and the
\* renderer's slice of the buffer does not panic.
C1_NeverFails ==
    /\ call \in {"window", "fmt"} => reads \subseteq 0..(Len(bytes) - 1)
    /\ (call = "window" \/ (call = "fmt" /\ Truncated)) =>
          /\ 0 <= range.start
          /\ range.start <= range.end
          /\ range.end <= Len(bytes)
    /\ call = "fmt" => status = "ok"

\* The unadjusted window of the current context.
Unadjusted == window_unadjusted(bytes, error_index, max_size)

\* A UTF-8 continuation byte: 10xxxxxx.
Continuation(x) == x \div 64 = 2

\* Every byte of the buffer at an index of lo..hi is a continuation byte.
OnlyContinuation(lo, hi) ==
    \A i \in lo..hi : (i >= 0 /\ i < Len(bytes)) => Continuation(bytes[i + 1])

\* Endpoint p, unadjusted u, is at 0 or the end of the buffer, or on a byte that
\* is not a continuation byte, or kept unadjusted with both scans exhausted.
EndpointSafe(p, u) ==
    \/ p = 0
    \/ p = Len(bytes)
    \/ (p > 0 /\ p < Len(bytes) /\ ~Continuation(bytes[p + 1]))
    \/ (p = u /\ OnlyContinuation(u, u + 3) /\ OnlyContinuation(u - 3, u))

\* C2: boundary safety: each endpoint of the range window() returns is 0 or
\* length(buffer), or indexes a byte that is not a continuation byte; the only
\* exception is an endpoint whose upward scan (index..index+3) and downward
\* scan (index-3..index) hold only continuation bytes, which keeps its
\* unadjusted value.
C2_BoundarySafety ==
    call = "window" =>
        /\ EndpointSafe(range.start, Unadjusted.start)
        /\ EndpointSafe(range.end, Unadjusted.end)

\* C2 witness: window() moved both endpoints of a truncated buffer's window
\* off continuation bytes, to indices strictly inside the buffer.
C2_Witness ==
    /\ call = "window"
    /\ Truncated
    /\ range.start # Unadjusted.start
    /\ range.end # Unadjusted.end
    /\ range.start > 0
    /\ range.end < Len(bytes)
    /\ range.start <= range.end

\* C3: no truncation: when length(buffer) <= budget the selected range is
\* exactly 0..length(buffer) and the output is only the quoted lossy decoding
\* of the whole buffer, with no "[n byte(s)]" marker before or after it.
C3_NoTruncation ==
    Len(bytes) <= max_size =>
        /\ call = "window" => range = [start |-> 0, end |-> Len(bytes)]
        /\ call = "window_unadjusted" =>
              range = [start |-> 0, end |-> Len(bytes)]
        /\ call = "fmt" =>
              /\ status = "ok"
              /\ out = <<34>> \o from_utf8_lossy(bytes) \o <<34>>
              /\ \A k \in 1..Len(out) : out[k] # 91 /\ out[k] # 93

\* C3 witness: a buffer exactly as long as the budget has been formatted.
C3_Witness ==
    /\ call = "fmt"
    /\ Len(bytes) = max_size
    /\ status = "ok"

C5_ContainsError ==
    (call \in {"window", "fmt"} /\ Truncated) =>
        /\ range.start <= error_index
        /\ error_index < range.end

\* C6: truncation markers sum correctly: for a truncated buffer the reported
\* before, the shown window end - start and the reported after are
\* non-negative byte counts with before + (end - start) + after = length.
C6_MarkersSum ==
    (call = "fmt" /\ Truncated) =>
        /\ before = range.start
        /\ after = Len(bytes) - range.end
        /\ before >= 0
        /\ range.end - range.start >= 0
        /\ after >= 0
        /\ before + (range.end - range.start) + after = Len(bytes)

\* C7: centering: when length > budget, error_offset >= half and
\* error_offset + half < length, the unadjusted window is exactly
\* error_offset - half .. error_offset + half.
C7_Centering ==
    (/\ call = "window_unadjusted"
     /\ Truncated
     /\ error_index >= Half
     /\ error_index + Half < Len(bytes)) =>
        range = [start |-> error_index - Half, end |-> error_index + Half]

\* C7 witness: window_unadjusted() returned a centred window with room on
\* both sides of the error offset.
C7_Witness ==
    /\ call = "window_unadjusted"
    /\ Truncated
    /\ Half >= 1
    /\ error_index > Half
    /\ error_index + Half < Len(bytes)

\* C8: edge anchoring: for a truncated buffer, error_offset + half >= length
\* gives the unadjusted window length - budget .. length and no trailing
\* marker; otherwise error_offset < half gives 0 .. budget and no leading
\* marker; the two conditions never hold together.
C8_EdgeAnchoring ==
    Truncated =>
        /\ ~(error_index + Half >= Len(bytes) /\ error_index < Half)
        /\ error_index + Half >= Len(bytes) =>
              /\ call = "window_unadjusted" =>
                    range = [start |-> Len(bytes) - max_size,
                             end |-> Len(bytes)]
              /\ call = "fmt" =>
                    /\ status = "ok"
                    /\ range.end = Len(bytes)
                    /\ out[Len(out)] = 34
        /\ (error_index + Half < Len(bytes) /\ error_index < Half) =>
              /\ call = "window_unadjusted" =>
                    range = [start |-> 0, end |-> max_size]
              /\ call = "fmt" =>
                    /\ status = "ok"
                    /\ range.start = 0
                    /\ out[1] = 34

\* C8 witness: a truncated buffer whose error is within half a window of the
\* end has been formatted, with a leading marker only.
C8_Witness ==
    /\ call = "fmt"
    /\ Truncated
    /\ error_index + Half >= Len(bytes)
    /\ out[1] = 91

\* C9 as stated: for a truncated buffer the unadjusted window holds exactly
\* budget bytes in all three cases, odd budgets included.
C9_ExactlyBudget ==
    (call = "window_unadjusted" /\ Truncated) =>
        range.end - range.start = max_size

\* C9 amended: the end-anchored and start-anchored unadjusted windows hold
\* exactly budget bytes; the centred one holds 2 * floor(budget / 2) bytes,
\* which is budget for an even budget and budget - 1 for an odd one.
C9_AnchoredExactCentredEven ==
    (call = "window_unadjusted" /\ Truncated) =>
        IF error_index + Half >= Len(bytes) \/ error_index < Half
        THEN range.end - range.start = max_size
        ELSE range.end - range.start = max_size - (max_size % 2)

\* C9 witness: a centred unadjusted window for an odd budget.
C9_Witness ==
    /\ call = "window_unadjusted"
    /\ Truncated
    /\ max_size % 2 = 1
    /\ error_index >= Half
    /\ error_index + Half < Len(bytes)
    /\ range.end - range.start = max_size - 1

\* C10: marker rendering: for a truncated buffer the leading marker is
\* emitted iff range.start > 0 and the trailing marker iff
\* range.end < length; each reports exactly that count, as "[1 byte]" for 1
\* and "[<n> bytes]" otherwise, around the quoted excerpt.
C10_MarkerRendering ==
    (call = "fmt" /\ Truncated) =>
        LET marker(n) ==
                IF n = 1 THEN <<91, 49, 32, 98, 121, 116, 101, 93>>
                ELSE <<91>> \o Digits(n) \o <<32, 98, 121, 116, 101, 115, 93>>
            lead == IF range.start > 0
                       THEN marker(range.start) \o <<32>> ELSE <<>>
            trail == IF range.end < Len(bytes)
                        THEN <<32>> \o marker(Len(bytes) - range.end) ELSE <<>>
            n == Len(out)
        IN  /\ n >= Len(lead) + 2 + Len(trail)
            /\ SubSeq(out, 1, Len(lead)) = lead
            /\ out[Len(lead) + 1] = 34
            /\ out[n - Len(trail)] = 34
            /\ SubSeq(out, n - Len(trail) + 1, n) = trail
            /\ \A k \in (Len(lead) + 1)..(n - Len(trail)) :
                   out[k] # 91 /\ out[k] # 93

\* The unadjusted start is non-zero and lands on a continuation byte, so
\* window() adjusts it.
StartNeedsAdjusting ==
    /\ Unadjusted.start # 0
    /\ Unadjusted.start < Len(bytes)
    /\ Continuation(bytes[Unadjusted.start + 1])

====
